---- MODULE Spec2Model ----
(***************************************************************************)
(* A model of ClaudeCodeAgent (agent/claude_code_agent/shared/             *)
(* claude_core.py): the trading session, the retry controller around the   *)
(* claude CLI subprocess, the response cache, and the extraction and       *)
(* validation of the decision embedded in the engine's result text.        *)
(*                                                                         *)
(* Encoding of JSON data.  A JSON value is a record [t, n]: t is its JSON  *)
(* type ("num", "str", "bool", "null") and n its numeric value (0 for a    *)
(* string or null, 0/1 for false/true, as Python's bool is an int).        *)
(* Amounts are whole shares; a confidence is given in hundredths, so that  *)
(* 0.85 is 85 and the interval [0.0, 1.0] is 0..100.                       *)
(*                                                                         *)
(* Specifications.  Spec: two sessions of one agent on one event loop.     *)
(* SpecLog: the same with a log file whose writes may fail.  SpecCache:    *)
(* the same with a second process that writes the cache files.             *)
(* SpecRetry: the same for the default max_retries = 3.  SpecWarm: the     *)
(* same over a cache directory left by an earlier run.  SpecLive: the      *)
(* same with the sessions scheduled fairly.                                *)
(* SpecExtract: _validate_decision and _extract_decision on their own.     *)
(***************************************************************************)
EXTENDS Integers, Sequences, FiniteSets, TLC

\* ------------------------------------------------------------ bounds
\* max_retries is drawn from 0..MaxRetriesBound
MaxRetriesBound == 2
\* a result text holds at most MaxBlocks candidate blocks
MaxBlocks == 3

\* ------------------------------------------------- program constants
\* max(120, self.cli_timeout // 2)
MinTimeout == 120
\* base_delay: float = 2.0
BaseDelay == 2

\* max_retries: int = 3
DefaultMaxRetries == 3

\* ------------------------------------------------------- JSON values
Num(n) == [t |-> "num", n |-> n]
Str == [t |-> "str", n |-> 0]
Null == [t |-> "null", n |-> 0]
Bool(b) == [t |-> "bool", n |-> IF b THEN 1 ELSE 0]

\* isinstance(x, (int, float)): a JSON number, or a bool (a Python int)
IsNumber(v) == v.t \in {"num", "bool"}

\* the allowed-symbol universe, prompts.agent_prompt.all_nasdaq_100_symbols
all_nasdaq_100_symbols == {"AAPL", "MSFT"}

RequiredFields == {"action", "symbol", "amount", "confidence", "reasoning"}

\* A candidate: the text between the braces of one block.  parses says
\* whether json.loads accepts it; has is the set of keys it holds.
Cand(action, symbol, amount, confidence, reasoning) ==
  [parses |-> TRUE, has |-> RequiredFields, action |-> action, symbol |-> symbol,
   amount |-> amount, confidence |-> confidence, reasoning |-> reasoning]

\* ------------------------------------------------------- validation
\* the validation without the membership test of the symbol
validate_decision_no_symbol(d) ==
  IF ~(RequiredFields \subseteq d.has) THEN "False"
  ELSE IF d.action \notin {"buy", "sell", "hold"} THEN "False"
  ELSE IF d.action = "hold" THEN "True"
  ELSE IF ~IsNumber(d.amount) \/ d.amount.n <= 0 THEN "False"
  ELSE IF ~IsNumber(d.confidence) THEN "TypeError"
  ELSE IF ~(0 <= d.confidence.n /\ d.confidence.n <= 100) THEN "False"
  ELSE "True"

\* the validation without the test for the five required fields
validate_decision_no_fields(d) ==
  IF d.action \notin {"buy", "sell", "hold"} THEN "False"
  ELSE IF d.action = "hold" THEN "True"
  ELSE IF d.symbol \notin all_nasdaq_100_symbols THEN "False"
  ELSE IF ~IsNumber(d.amount) \/ d.amount.n <= 0 THEN "False"
  ELSE IF ~IsNumber(d.confidence) THEN "TypeError"
  ELSE IF ~(0 <= d.confidence.n /\ d.confidence.n <= 100) THEN "False"
  ELSE "True"

\* _validate_decision: "True", "False", or "TypeError" when the comparison
\* 0.0 <= confidence <= 1.0 meets a value that is no number.
validate_decision(d) ==
  IF ~(RequiredFields \subseteq d.has) THEN "False"
  ELSE IF d.action \notin {"buy", "sell", "hold"} THEN "False"
  ELSE IF d.action = "hold" THEN "True"
  ELSE IF d.symbol \notin all_nasdaq_100_symbols THEN "False"
  ELSE IF ~IsNumber(d.amount) \/ d.amount.n <= 0 THEN "False"
  ELSE IF ~IsNumber(d.confidence) THEN "TypeError"
  ELSE IF ~(0 <= d.confidence.n /\ d.confidence.n <= 100) THEN "False"
  ELSE "True"

\* ------------------------------------------------------- extraction
\* A result text is a sequence of blocks; a block is a candidate inside a
\* <DECISION> tag ("tagged"), inside a ```json fence ("fenced") or bare in
\* the prose ("loose").  Candidates are flat objects (no nested braces).
Kinds == {"tagged", "fenced", "loose"}

\* the fallback of _extract_decision
DefaultHold ==
  Cand("hold", "", Num(0), Num(0), "Could not parse decision from Claude Code response")

Returned(d) == [exc |-> "none", decision |-> d]
Raised(e) == [exc |-> e, decision |-> DefaultHold]

\* the rightmost block of the kind instead of the leftmost
LastOfKind(text, kind) ==
  IF \E i \in 1..Len(text) : text[i].kind = kind
  THEN CHOOSE i \in 1..Len(text) :
         /\ text[i].kind = kind
         /\ \A j \in (i + 1)..Len(text) : text[j].kind # kind
  ELSE 0

\* re.search: the leftmost block of the kind, 0 when there is none
FirstOfKind(text, kind) ==
  IF \E i \in 1..Len(text) : text[i].kind = kind
  THEN CHOOSE i \in 1..Len(text) :
         /\ text[i].kind = kind
         /\ \A j \in 1..(i - 1) : text[j].kind # kind
  ELSE 0

\* re.findall(r'\{[^{}]*"action"[^{}]*\}'): every flat object of the text
\* that holds the key "action", whatever surrounds it, left to right
LooseMatches(text) ==
  SelectSeq(text, LAMBDA b : "action" \in b.obj.has)

\* the for loop of strategy 3 over the matches from index i on
RECURSIVE LooseScan(_, _)
LooseScan(objs, i) ==
  IF i > Len(objs) THEN Returned(DefaultHold)
  ELSE IF ~objs[i].obj.parses THEN LooseScan(objs, i + 1)
  ELSE LET v == validate_decision(objs[i].obj)
       IN IF v = "True" THEN Returned(objs[i].obj)
          ELSE IF v = "False" THEN LooseScan(objs, i + 1)
          ELSE Raised(v)

Strategy3(text) == LooseScan(LooseMatches(text), 1)

\* strategy 2: the first ```json block, then strategy 3
Strategy2(text) ==
  LET i == FirstOfKind(text, "fenced")
  IN IF i = 0 \/ ~text[i].obj.parses THEN Strategy3(text)
     ELSE LET v == validate_decision(text[i].obj)
          IN IF v = "True" THEN Returned(text[i].obj)
             ELSE IF v = "False" THEN Strategy3(text)
             ELSE Raised(v)

\* strategy 1: the first <DECISION> block, then strategy 2
Strategy1(text) ==
  LET i == FirstOfKind(text, "tagged")
  IN IF i = 0 \/ ~text[i].obj.parses THEN Strategy2(text)
     ELSE LET v == validate_decision(text[i].obj)
          IN IF v = "True" THEN Returned(text[i].obj)
             ELSE IF v = "False" THEN Strategy2(text)
             ELSE Raised(v)

\* _extract_decision(response_text); a response_text that is no string
\* makes re.search raise TypeError
extract_decision(response_text) ==
  IF response_text.t # "str" THEN Raised("TypeError")
  ELSE Strategy1(response_text.blocks)

\* ---------------------------------------------------------- envelopes
Text(blocks) == [t |-> "str", blocks |-> blocks]
NoText == [t |-> "null", blocks |-> <<>>]
AbsentText == [t |-> "absent", blocks |-> <<>>]
Block(kind, obj) == [kind |-> kind, obj |-> obj]

\* The parsed stdout of the CLI when it is a JSON object.  result is the
\* 'result' member (a string, another JSON value, or absent), is_error the
\* truth value of 'is_error', cost the JSON type of 'total_cost_usd'
\* ("absent" when the member is missing).
Envelope(result, is_error, cost, error_type) ==
  [kind |-> "dict", result |-> result, is_error |-> is_error, cost |-> cost,
   error_type |-> error_type]

\* what the for loop of _ainvoke_claude_with_retry returns when it runs out
NoneResponse == [kind |-> "None"]
NoEntry == [kind |-> "absent"]
\* a cache file that open(cache_file, 'w') has truncated and json.dump has
\* not completed: it exists and holds a strict prefix of a JSON object
PartialEntry == [kind |-> "partial"]

\* the timeout envelope with the is_error of the json_decode one
TimeoutEnvelopeAsError ==
  Envelope(Text(<<Block("tagged",
                        Cand("hold", "", Num(0), Num(0), "Analysis timeout after all retries"))>>),
           TRUE, "absent", "timeout")

\* the synthetic envelope returned on the last timed-out attempt
TimeoutEnvelope ==
  Envelope(Text(<<Block("tagged",
                        Cand("hold", "", Num(0), Num(0), "Analysis timeout after all retries"))>>),
           FALSE, "absent", "timeout")

\* the synthetic envelope returned on a ValueError
JsonDecodeEnvelope ==
  Envelope(Text(<<Block("tagged",
                        Cand("hold", "", Num(0), Num(0), "Invalid response format"))>>),
           TRUE, "absent", "json_decode")

\* ------------------------------------------------ candidates and texts
BuyAAPL == Cand("buy", "AAPL", Num(10), Num(85), "a")
SellMSFT == Cand("sell", "MSFT", Num(5), Num(60), "b")
HoldOK == Cand("hold", "", Num(0), Num(50), "c")
BuyZZZZ == Cand("buy", "ZZZZ", Str, Str, "d")
BuyStrConf == Cand("buy", "AAPL", Num(10), Str, "e")
HoldStrConf == Cand("hold", "", Num(0), Str, "f")
HoldBig == Cand("hold", "ZZZZ", Num(5), Num(150), "i")
NoReasoning == [BuyAAPL EXCEPT !.has = RequiredFields \ {"reasoning"}, !.reasoning = "g"]
Garbage == [BuyAAPL EXCEPT !.parses = FALSE, !.reasoning = "h"]

\* the result texts an engine run of a session may produce
SessionTexts ==
  { <<Block("tagged", BuyAAPL)>>,
    <<Block("fenced", BuyStrConf)>>,
    <<Block("loose", HoldStrConf)>> }

\* the JSON objects the CLI may print in a session: a good envelope for each
\* text, one whose total_cost_usd is a string, and one with is_error set
SessionEnvelopes ==
  { Envelope(Text(b), FALSE, "num", "none") : b \in SessionTexts }
  \cup { Envelope(Text(<<Block("tagged", BuyAAPL)>>), FALSE, "str", "none"),
         Envelope(Text(<<>>), TRUE, "num", "none") }

\* How one subprocess run ends: the timeout expires, the exit status is not
\* zero, or it exits with 0 and a stdout that is no JSON ("invalid"), JSON
\* but no object ("non_object"), or a JSON object.
Outcomes ==
  { [o |-> "timeout", env |-> NoneResponse],
    [o |-> "exit_nonzero", env |-> NoneResponse],
    [o |-> "invalid_json", env |-> NoneResponse],
    [o |-> "non_object", env |-> NoneResponse] }
  \cup { [o |-> "object", env |-> e] : e \in SessionEnvelopes }

NoOutcome == [o |-> "none", env |-> NoneResponse]

\* ------------------------------------------------------------ prompts
\* A prompt is a sequence of characters.
NL == "\n"
PromptPairs ==
  { [system |-> <<"s">>, user |-> <<"u">>],
    [system |-> <<"s", NL, "x">>, user |-> <<"u">>],
    [system |-> <<"s">>, user |-> <<"x", NL, "u">>] }

\* _get_cache_key: the digest of system_prompt + "\n" + prompt; the digest
\* is taken to be injective, so the key is the string that is hashed
get_cache_key(prompt, system_prompt) == system_prompt \o <<NL>> \o prompt

CacheKeys == { get_cache_key(p.user, p.system) : p \in PromptPairs }

\* -------------------------------------------------------------- state
\* The sessions of one agent, numbered in the order in which they start.
Sessions == 1..2
NoSession == 0

VARIABLES
  max_retries,      \* self.max_retries
  cfg_cli_timeout,  \* the cli_timeout the agent was constructed with
  cli_timeout,      \* self.cli_timeout, a field of the agent shared by its sessions
  use_cache,        \* self.use_cache
  cache,            \* the files of cache_dir: key -> stored envelope, or NoEntry
  stored,           \* the (prompt pair, envelope) writes made to the cache so far
  running,          \* the session the event loop is executing, or NoSession
  pc,               \* per session: its position in run_trading_session
  prompts,          \* per session: the prompt pair built from its context
  attempt,          \* per session: the loop variable of the retry loop
  response,         \* per session: what _ainvoke_claude_with_retry returned
  exc,              \* per session: the exception being propagated, or "none"
  decision,         \* per session: what _extract_decision returned
  log,              \* per session: the records appended to its log.jsonl
  timeouts,         \* per session: the timeout passed to each call of _invoke_claude_cli
  outcomes,         \* per session: how each call of the subprocess ended for the
                    \* retry loop: "return", or the exception it raised
  last_out,         \* per session: the way its latest subprocess ended
  sleeps,           \* per session: the delay of each asyncio.sleep
  xmode,            \* the function applied on its own: "validate", "extract", "off"
  xcand,            \* the candidate handed to _validate_decision
  xverdict,         \* what _validate_decision answered, "pending" before the call
  xtext,            \* the response_text handed to _extract_decision
  xout,             \* what _extract_decision did, exc "pending" before the call
  log_faulty,       \* whether a write to log.jsonl may fail (OSError)
  peer              \* a session of another process that runs the same agent
                    \* (same signature, hence the same cache_dir)

agent_vars == <<max_retries, cfg_cli_timeout, cli_timeout, use_cache, cache, stored>>
session_vars == <<running, pc, prompts, attempt, response, exc, decision, log,
                  timeouts, outcomes, last_out, sleeps>>
x_vars == <<xmode, xcand, xverdict, xtext, xout>>
env_vars == <<log_faulty, peer>>
vars == <<agent_vars, session_vars, x_vars, env_vars>>

\* the cli_timeout values an agent is constructed with
InitTimeouts == {60, 400}

NoPrompts == [system |-> <<>>, user |-> <<>>]

\* a cache_dir without files
EmptyCache ==
  /\ cache = [k \in CacheKeys |-> NoEntry]
  /\ stored = {}

\* the agent as __init__ leaves it, whatever its arguments were: the
\* timeout is the configured one and no session has run
NothingRun ==
  /\ cli_timeout = cfg_cli_timeout
  /\ running = NoSession
  /\ pc = [s \in Sessions |-> "idle"]
  /\ prompts = [s \in Sessions |-> NoPrompts]
  /\ attempt = [s \in Sessions |-> 0]
  /\ response = [s \in Sessions |-> NoneResponse]
  /\ exc = [s \in Sessions |-> "none"]
  /\ decision = [s \in Sessions |-> DefaultHold]
  /\ log = [s \in Sessions |-> <<>>]
  /\ timeouts = [s \in Sessions |-> <<>>]
  /\ outcomes = [s \in Sessions |-> <<>>]
  /\ last_out = [s \in Sessions |-> NoOutcome]
  /\ sleeps = [s \in Sessions |-> <<>>]

\* the state after __init__: nothing has run yet
AgentInit ==
  /\ max_retries \in 0..MaxRetriesBound
  /\ cfg_cli_timeout \in InitTimeouts
  /\ use_cache \in BOOLEAN
  /\ EmptyCache
  /\ NothingRun

Pending == [exc |-> "pending", decision |-> DefaultHold]

\* the other process: what it is doing, for which prompt pair, with which
\* envelope; NoPeer when the agent's process is the only one
NoPeer == [pc |-> "absent", pair |-> NoPrompts, env |-> NoneResponse]

Init ==
  /\ AgentInit
  /\ log_faulty = FALSE
  /\ peer = NoPeer
  /\ xmode = "off"
  /\ xcand = DefaultHold
  /\ xverdict = "pending"
  /\ xtext = Text(<<>>)
  /\ xout = Pending

\* ------------------------------------------------------------ logging
Record(role) == [role |-> role]
DecisionRecord(d) == [role |-> "decision", decision |-> d]

\* how an open(log_file, 'a') and its writes may end: TRUE when the records
\* are appended, FALSE when the open or a write raises OSError
LogWrites == IF log_faulty THEN BOOLEAN ELSE {TRUE}

\* _log_error with the file opened in mode 'w': the error record replaces
\* the records written before
log_error_rewrites(s) == [log EXCEPT ![s] = <<Record("error")>>]

\* _log_error that appends nothing
log_error_dropped(s) == log

\* _log_error: one "error" record appended
log_error(s) == [log EXCEPT ![s] = Append(@, Record("error"))]

\* ---------------------------------------------------- the trading session
\* the return after a failed context, replaced by a raise
ContextFailureRaised == "raised"

\* except Exception: ... return -- the session ends by returning
ContextFailureExit == "returned"

\* run_trading_session up to the call of the retry controller: the session
\* id, the trading context (ctx_ok: no price or position source raised), the
\* prompts and the two prompt records.  A context failure logs an error and
\* returns.  A failed write of the prompt records, or of the error record,
\* is outside every try block: its OSError leaves run_trading_session.
StartSession(s) ==
  /\ running = NoSession
  /\ pc[s] = "idle"
  /\ \A t \in Sessions : t < s => pc[t] # "idle"
  /\ \E ctx_ok \in BOOLEAN, p \in PromptPairs, written \in LogWrites :
       IF ~written
       THEN /\ exc' = [exc EXCEPT ![s] = "OSError"]
            /\ pc' = [pc EXCEPT ![s] = "raised"]
            /\ UNCHANGED <<prompts, log, running>>
       ELSE IF ctx_ok
       THEN /\ prompts' = [prompts EXCEPT ![s] = p]
            /\ log' = [log EXCEPT ![s] = @ \o <<Record("system"), Record("user")>>]
            /\ pc' = [pc EXCEPT ![s] = "retry"]
            /\ running' = s
            /\ UNCHANGED exc
       ELSE /\ log' = log_error(s)
            /\ pc' = [pc EXCEPT ![s] = ContextFailureExit]
            /\ UNCHANGED <<prompts, running, exc>>
  /\ UNCHANGED <<agent_vars, attempt, response, decision, timeouts, outcomes,
                 last_out, sleeps, x_vars, env_vars>>

\* for attempt in range(1, self.max_retries + 1): the next attempt, or the
\* end of the loop, where the function returns None
LoopBoundOffByOne == max_retries + 1

LoopBound == max_retries

RetryLoop(s) ==
  /\ running = s
  /\ pc[s] = "retry"
  /\ IF attempt[s] + 1 <= LoopBound
     THEN /\ attempt' = [attempt EXCEPT ![s] = @ + 1]
          /\ pc' = [pc EXCEPT ![s] = "invoke"]
          /\ UNCHANGED response
     ELSE /\ response' = [response EXCEPT ![s] = NoneResponse]
          /\ pc' = [pc EXCEPT ![s] = "respond"]
          /\ UNCHANGED attempt
  /\ UNCHANGED <<agent_vars, running, prompts, exc, decision, log, timeouts,
                 outcomes, last_out, sleeps, x_vars, env_vars>>

\* a lookup that does not ask whether the cache is enabled
CacheLookupAlways(s) == cache[get_cache_key(prompts[s].user, prompts[s].system)]

\* the lookup with the arguments of _get_cache_key in the wrong order
CacheLookupSwapped(s) ==
  LET key == get_cache_key(prompts[s].system, prompts[s].user)
  IN IF use_cache /\ key \in DOMAIN cache THEN cache[key] ELSE NoEntry

\* the cache lookup of _invoke_claude_cli: the stored envelope, or NoEntry
CacheLookup(s) ==
  IF use_cache THEN cache[get_cache_key(prompts[s].user, prompts[s].system)]
  ELSE NoEntry

\* _invoke_claude_cli up to subprocess.run: called with self.cli_timeout, it
\* returns the cached envelope on a hit and spawns the subprocess otherwise.
\* On a cache file that exists but is not complete json.load raises
\* JSONDecodeError, a ValueError, before the try block: the handler of
\* _ainvoke_claude_with_retry returns the json_decode envelope.
InvokeClaudeCli(s) ==
  /\ running = s
  /\ pc[s] = "invoke"
  /\ timeouts' = [timeouts EXCEPT ![s] = Append(@, cli_timeout)]
  /\ IF CacheLookup(s) = PartialEntry
     THEN /\ response' = [response EXCEPT ![s] = JsonDecodeEnvelope]
          /\ pc' = [pc EXCEPT ![s] = "respond"]
     ELSE IF CacheLookup(s) # NoEntry
     THEN /\ response' = [response EXCEPT ![s] = CacheLookup(s)]
          /\ pc' = [pc EXCEPT ![s] = "respond"]
     ELSE /\ pc' = [pc EXCEPT ![s] = "subprocess"]
          /\ UNCHANGED response
  /\ UNCHANGED <<agent_vars, running, prompts, attempt, exc, decision, log,
                 outcomes, last_out, sleeps, x_vars, env_vars>>

\* _invoke_claude_cli from the end of subprocess.run on: the value returned
\* or the exception raised for the way the subprocess ended
Return(env) == [kind |-> "return", env |-> env, exc |-> "none"]
Raise(e) == [kind |-> "raise", env |-> NoneResponse, exc |-> e]

\* _invoke_claude_cli without the check of is_error
invoke_claude_cli_ignores_is_error(out) ==
  IF out.o = "timeout" THEN Raise("TimeoutError")
  ELSE IF out.o = "exit_nonzero" THEN Raise("ClaudeCodeError")
  ELSE IF out.o = "invalid_json" THEN Raise("ValueError")
  ELSE IF out.o = "non_object" THEN Raise("AttributeError")
  ELSE IF out.env.cost = "str" THEN Raise("ValueError")
  ELSE IF out.env.cost = "null" THEN Raise("TypeError")
  ELSE Return(out.env)

\* _invoke_claude_cli with JSONDecodeError turned into the retriable error
invoke_claude_cli_json_retriable(out) ==
  IF out.o = "timeout" THEN Raise("TimeoutError")
  ELSE IF out.o = "exit_nonzero" THEN Raise("ClaudeCodeError")
  ELSE IF out.o = "invalid_json" THEN Raise("ClaudeCodeError")
  ELSE IF out.o = "non_object" THEN Raise("AttributeError")
  ELSE IF out.env.is_error THEN Raise("ClaudeCodeError")
  ELSE IF out.env.cost = "str" THEN Raise("ValueError")
  ELSE IF out.env.cost = "null" THEN Raise("TypeError")
  ELSE Return(out.env)

invoke_claude_cli(out) ==
  IF out.o = "timeout" THEN Raise("TimeoutError")            \* TimeoutExpired
  ELSE IF out.o = "exit_nonzero" THEN Raise("ClaudeCodeError")
  ELSE IF out.o = "invalid_json" THEN Raise("ValueError")    \* JSONDecodeError
  ELSE IF out.o = "non_object" THEN Raise("AttributeError")  \* response.get
  ELSE IF out.env.is_error THEN Raise("ClaudeCodeError")
  ELSE IF out.env.cost = "str" THEN Raise("ValueError")      \* f"{cost:.4f}"
  ELSE IF out.env.cost = "null" THEN Raise("TypeError")
  ELSE Return(out.env)

\* a backoff that does not sleep after the first attempt
BackoffDelayFromZero(a) == BaseDelay * (a - 1)

\* a backoff that sleeps the same time after every attempt
BackoffDelayConstant(a) == BaseDelay

\* the delay of the backoff sleep after a failed attempt
BackoffDelay(a) == BaseDelay * a

\* the test of the last attempt with a counter of its own in each handler:
\* the failures of class e so far, this one included
LastAttemptOwnCounter(s, e) ==
  Cardinality({k \in 1..Len(outcomes[s]) : outcomes[s][k] = e}) + 1 = max_retries

\* if attempt == self.max_retries, in the handler of exception class e: both
\* handlers test the loop variable, which counts the attempts of any outcome
LastAttempt(s, e) == attempt[s] = max_retries

\* subprocess.run ends with outcome out; _invoke_claude_cli parses the
\* stdout, stores a good envelope in the cache and returns it, or raises;
\* the handlers of _ainvoke_claude_with_retry take the exception up to the
\* sleep, the return or the raise.
SubprocessRun(s) ==
  /\ running = s
  /\ pc[s] = "subprocess"
  /\ \E out \in Outcomes :
       LET r == invoke_claude_cli(out)
           key == get_cache_key(prompts[s].user, prompts[s].system)
           last == LastAttempt(s, r.exc)
       IN /\ outcomes' = [outcomes EXCEPT ![s] =
                                Append(@, IF r.kind = "return" THEN "return" ELSE r.exc)]
          /\ last_out' = [last_out EXCEPT ![s] = out]
          /\ IF r.kind = "return" /\ use_cache
             THEN /\ cache' = [cache EXCEPT ![key] = r.env]
                  /\ stored' = stored \cup {[pair |-> prompts[s], env |-> r.env]}
             ELSE UNCHANGED <<cache, stored>>
          /\ CASE r.kind = "return" ->
                    /\ response' = [response EXCEPT ![s] = r.env]
                    /\ pc' = [pc EXCEPT ![s] = "respond"]
                    /\ UNCHANGED <<exc, sleeps, running>>
               [] r.exc = "TimeoutError" /\ last ->
                    /\ response' = [response EXCEPT ![s] = TimeoutEnvelope]
                    /\ pc' = [pc EXCEPT ![s] = "respond"]
                    /\ UNCHANGED <<exc, sleeps, running>>
               [] r.exc = "TimeoutError" /\ ~last ->
                    /\ sleeps' = [sleeps EXCEPT ![s] = Append(@, BackoffDelay(attempt[s]))]
                    /\ pc' = [pc EXCEPT ![s] = "sleep_timeout"]
                    /\ running' = NoSession
                    /\ UNCHANGED <<exc, response>>
               [] r.exc = "ClaudeCodeError" /\ last ->
                    /\ exc' = [exc EXCEPT ![s] = "RuntimeError"]
                    /\ pc' = [pc EXCEPT ![s] = "except"]
                    /\ UNCHANGED <<response, sleeps, running>>
               [] r.exc = "ClaudeCodeError" /\ ~last ->
                    /\ sleeps' = [sleeps EXCEPT ![s] = Append(@, BackoffDelay(attempt[s]))]
                    /\ pc' = [pc EXCEPT ![s] = "sleep_error"]
                    /\ running' = NoSession
                    /\ UNCHANGED <<exc, response>>
               [] r.exc = "ValueError" ->
                    /\ response' = [response EXCEPT ![s] = JsonDecodeEnvelope]
                    /\ pc' = [pc EXCEPT ![s] = "respond"]
                    /\ UNCHANGED <<exc, sleeps, running>>
               [] OTHER ->
                    /\ exc' = [exc EXCEPT ![s] = r.exc]
                    /\ pc' = [pc EXCEPT ![s] = "except"]
                    /\ UNCHANGED <<response, sleeps, running>>
  /\ UNCHANGED <<max_retries, cfg_cli_timeout, cli_timeout, use_cache, prompts,
                 attempt, decision, log, timeouts, x_vars, env_vars>>

\* the narrowing without its floor
NarrowTimeoutNoFloor(t) == t \div 2

\* the timeout for the next attempt after a timed-out one
NarrowTimeout(t) == IF t \div 2 > MinTimeout THEN t \div 2 ELSE MinTimeout

\* asyncio.sleep returns: after a timeout self.cli_timeout is narrowed; the
\* loop goes on with the next attempt
Wake(s) ==
  /\ running = NoSession
  /\ pc[s] \in {"sleep_timeout", "sleep_error"}
  /\ running' = s
  /\ cli_timeout' = IF pc[s] = "sleep_timeout" THEN NarrowTimeout(cli_timeout)
                    ELSE cli_timeout
  /\ pc' = [pc EXCEPT ![s] = "retry"]
  /\ UNCHANGED <<max_retries, cfg_cli_timeout, use_cache, cache, stored, prompts,
                 attempt, response, exc, decision, log, timeouts, outcomes, last_out,
                 sleeps, x_vars, env_vars>>

\* the prints of the decision: f"{decision.get('confidence', 0):.2%}" raises
\* ValueError for a string and TypeError for null
print_decision(d) ==
  IF "confidence" \notin d.has THEN "none"
  ELSE IF d.confidence.t = "str" THEN "ValueError"
  ELSE IF d.confidence.t = "null" THEN "TypeError"
  ELSE "none"

\* response.get('result', '')
response_text(env) == IF env.result.t = "absent" THEN Text(<<>>) ELSE env.result

\* run_trading_session after the retry controller returned: the assistant
\* record, the extraction, the prints and the decision record; an exception
\* on the way, a failed write of a record included, goes to the handler
HandleResponse(s) ==
  /\ running = s
  /\ pc[s] = "respond"
  /\ IF response[s].kind = "None"
     THEN /\ exc' = [exc EXCEPT ![s] = "AttributeError"]
          /\ pc' = [pc EXCEPT ![s] = "except"]
          /\ UNCHANGED <<decision, log, running>>
     ELSE \E assistant_written, decision_written \in LogWrites :
          LET text == response_text(response[s])
              x == extract_decision(text)
              p == print_decision(x.decision)
              logged == Append(log[s], Record("assistant"))
          IN IF ~assistant_written
             THEN /\ exc' = [exc EXCEPT ![s] = "OSError"]
                  /\ pc' = [pc EXCEPT ![s] = "except"]
                  /\ UNCHANGED <<decision, log, running>>
             ELSE IF x.exc # "none" \/ p # "none"
             THEN /\ exc' = [exc EXCEPT ![s] = IF x.exc # "none" THEN x.exc ELSE p]
                  /\ log' = [log EXCEPT ![s] = logged]
                  /\ pc' = [pc EXCEPT ![s] = "except"]
                  /\ UNCHANGED <<decision, running>>
             ELSE IF ~decision_written
             THEN /\ exc' = [exc EXCEPT ![s] = "OSError"]
                  /\ log' = [log EXCEPT ![s] = logged]
                  /\ pc' = [pc EXCEPT ![s] = "except"]
                  /\ UNCHANGED <<decision, running>>
             ELSE /\ decision' = [decision EXCEPT ![s] = x.decision]
                  /\ log' = [log EXCEPT ![s] = Append(logged, DecisionRecord(x.decision))]
                  /\ pc' = [pc EXCEPT ![s] = "done"]
                  /\ running' = NoSession
                  /\ UNCHANGED exc
  /\ UNCHANGED <<agent_vars, prompts, attempt, response, timeouts, outcomes,
                 last_out, sleeps, x_vars, env_vars>>

\* the handler without its raise: the session returns as if it had completed
ExceptionExitSwallowed == "done"

\* the bare raise that ends the handler: the session ends by raising
ExceptionExit == "raised"

\* except Exception: the error record, and the exception is raised again;
\* when the write of the error record fails, its OSError is raised instead
HandleException(s) ==
  /\ running = s
  /\ pc[s] = "except"
  /\ \E written \in LogWrites :
       IF written
       THEN /\ log' = log_error(s)
            /\ pc' = [pc EXCEPT ![s] = ExceptionExit]
            /\ UNCHANGED exc
       ELSE /\ exc' = [exc EXCEPT ![s] = "OSError"]
            /\ pc' = [pc EXCEPT ![s] = "raised"]
            /\ UNCHANGED log
  /\ running' = NoSession
  /\ UNCHANGED <<agent_vars, prompts, attempt, response, decision, timeouts,
                 outcomes, last_out, sleeps, x_vars, env_vars>>

Next ==
  \E s \in Sessions :
    \/ StartSession(s)
    \/ RetryLoop(s)
    \/ InvokeClaudeCli(s)
    \/ SubprocessRun(s)
    \/ Wake(s)
    \/ HandleResponse(s)
    \/ HandleException(s)

Spec == Init /\ [][Next]_vars

\* ------------------------------------------- a log file that may fail
\* The same sessions with a log.jsonl whose writes may raise OSError (a full
\* disk, a directory that was removed), for an agent with max_retries = 2
\* and no cache.
InitLog ==
  /\ AgentInit
  /\ max_retries = 2
  /\ cfg_cli_timeout = 400
  /\ use_cache = FALSE
  /\ log_faulty = TRUE
  /\ peer = NoPeer
  /\ xmode = "off"
  /\ xcand = DefaultHold
  /\ xverdict = "pending"
  /\ xtext = Text(<<>>)
  /\ xout = Pending

SpecLog == InitLog /\ [][Next]_vars

\* ------------------------------------------- an agent with three attempts
\* The same sessions for an agent constructed with max_retries = 3 (the
\* default of __init__) and no cache, so that a session can fail twice
\* before its last attempt.
InitRetry ==
  /\ max_retries = DefaultMaxRetries
  /\ cfg_cli_timeout \in InitTimeouts
  /\ use_cache = FALSE
  /\ EmptyCache
  /\ NothingRun
  /\ log_faulty = FALSE
  /\ peer = NoPeer
  /\ xmode = "off"
  /\ xcand = DefaultHold
  /\ xverdict = "pending"
  /\ xtext = Text(<<>>)
  /\ xout = Pending

SpecRetry == InitRetry /\ [][Next]_vars

\* ------------------------------------------- sessions that are scheduled
\* The sessions of an agent with max_retries >= 1 and no cache on an event
\* loop that runs every task that is ready: a started session is not left
\* waiting for ever.  subprocess.run returns when the child exits or when
\* the timeout it was given expires (the child is killed and waited for),
\* asyncio.sleep returns when its delay has elapsed, and the code between
\* two awaits runs to its end.  Whether a session is started is up to the
\* caller: StartSession is not under fairness.
InitLive ==
  /\ max_retries \in 1..MaxRetriesBound
  /\ cfg_cli_timeout = 400
  /\ use_cache = FALSE
  /\ EmptyCache
  /\ NothingRun
  /\ log_faulty = FALSE
  /\ peer = NoPeer
  /\ xmode = "off" /\ xcand = DefaultHold /\ xverdict = "pending"
  /\ xtext = Text(<<>>) /\ xout = Pending

\* a step of a session that was started
SessionStep(s) ==
  \/ RetryLoop(s)
  \/ InvokeClaudeCli(s)
  \/ SubprocessRun(s)
  \/ Wake(s)
  \/ HandleResponse(s)
  \/ HandleException(s)

Scheduled == \A s \in Sessions : WF_vars(SessionStep(s))

SpecLive == InitLive /\ [][Next]_vars /\ Scheduled

\* ------------------------------------------- a cache_dir with a file
\* cache_dir lies under log_path and outlives the agent: an agent constructed
\* over the directory of an earlier run finds the files that run wrote.  Here
\* the earlier run stored one good envelope for one prompt pair; the new
\* agent has max_retries = 2 and caching enabled or disabled.
WarmPair == [system |-> <<"s">>, user |-> <<"u">>]
WarmEnvelope == Envelope(Text(<<Block("tagged", SellMSFT)>>), FALSE, "num", "none")

InitWarm ==
  /\ max_retries = 2
  /\ cfg_cli_timeout = 400
  /\ use_cache \in BOOLEAN
  /\ cache = [k \in CacheKeys |->
               IF k = get_cache_key(WarmPair.user, WarmPair.system)
               THEN WarmEnvelope ELSE NoEntry]
  /\ stored = {[pair |-> WarmPair, env |-> WarmEnvelope]}
  /\ NothingRun
  /\ log_faulty = FALSE
  /\ peer = NoPeer
  /\ xmode = "off" /\ xcand = DefaultHold /\ xverdict = "pending"
  /\ xtext = Text(<<>>) /\ xout = Pending

SpecWarm == InitWarm /\ [][Next]_vars

\* ------------------------------------- a second process on the cache
\* Another process runs a session of the same agent (same signature and
\* log_path, hence the same cache_dir) in parallel with this one.  Of its
\* session the steps on the cache files are modelled: the lookup that
\* misses, and after its subprocess the write of lines 389-393, which is not
\* atomic: open(cache_file, 'w') truncates the file, json.dump fills it.
PeerEnvelopes ==
  { e \in SessionEnvelopes : invoke_claude_cli([o |-> "object", env |-> e]).kind = "return" }

\* the peer's _invoke_claude_cli finds no cache file and spawns its subprocess
PeerLookup ==
  /\ peer.pc = "idle"
  /\ \E p \in PromptPairs :
       /\ cache[get_cache_key(p.user, p.system)] = NoEntry
       /\ peer' = [pc |-> "subprocess", pair |-> p, env |-> NoneResponse]
  /\ UNCHANGED <<agent_vars, session_vars, x_vars, log_faulty>>

\* the peer's subprocess returned a good envelope: open(cache_file, 'w')
PeerOpen ==
  /\ peer.pc = "subprocess"
  /\ \E e \in PeerEnvelopes : peer' = [peer EXCEPT !.pc = "writing", !.env = e]
  /\ cache' = [cache EXCEPT ![get_cache_key(peer.pair.user, peer.pair.system)] = PartialEntry]
  /\ UNCHANGED <<max_retries, cfg_cli_timeout, cli_timeout, use_cache, stored,
                 session_vars, x_vars, log_faulty>>

\* the peer's json.dump completes and the file is closed
PeerDump ==
  /\ peer.pc = "writing"
  /\ peer' = [peer EXCEPT !.pc = "done"]
  /\ cache' = [cache EXCEPT ![get_cache_key(peer.pair.user, peer.pair.system)] = peer.env]
  /\ stored' = stored \cup {[pair |-> peer.pair, env |-> peer.env]}
  /\ UNCHANGED <<max_retries, cfg_cli_timeout, cli_timeout, use_cache,
                 session_vars, x_vars, log_faulty>>

InitCache ==
  /\ AgentInit
  /\ max_retries = 2
  /\ cfg_cli_timeout = 400
  /\ use_cache = TRUE
  /\ log_faulty = FALSE
  /\ peer = [NoPeer EXCEPT !.pc = "idle"]
  /\ xmode = "off"
  /\ xcand = DefaultHold
  /\ xverdict = "pending"
  /\ xtext = Text(<<>>)
  /\ xout = Pending

NextCache == Next \/ PeerLookup \/ PeerOpen \/ PeerDump

SpecCache == InitCache /\ [][NextCache]_vars

\* --------------------------------------- the two pure functions alone
\* The candidates handed to _validate_decision: every combination of an
\* action, a symbol, an amount, a confidence and a set of keys.
CandActions == {"buy", "sell", "hold", "short"}
CandSymbols == {"AAPL", "ZZZZ", ""}
CandAmounts == {Num(10), Num(0), Num(-1), Str, Null, Bool(TRUE), Bool(FALSE)}
CandConfidences == {Num(85), Num(0), Num(100), Num(150), Num(-5), Str, Null, Bool(TRUE)}
CandKeys == {RequiredFields} \cup {RequiredFields \ {f} : f \in RequiredFields}
ValidateCands ==
  { [Cand(a, sy, am, co, "r") EXCEPT !.has = h] :
      a \in CandActions, sy \in CandSymbols, am \in CandAmounts,
      co \in CandConfidences, h \in CandKeys }

\* The texts handed to _extract_decision: up to MaxBlocks blocks, each of
\* any kind around any of these candidates; and a result that is no string.
ExtractObjs ==
  {BuyAAPL, SellMSFT, HoldOK, BuyZZZZ, BuyStrConf, NoReasoning, Garbage, HoldBig}
ExtractBlocks == { Block(k, o) : k \in Kinds, o \in ExtractObjs }
ExtractTexts ==
  { Text(b) : b \in UNION { [1..n -> ExtractBlocks] : n \in 0..MaxBlocks } }
  \cup {NoText}

InitExtract ==
  /\ AgentInit
  /\ log_faulty = FALSE
  /\ peer = NoPeer
  /\ max_retries = 1
  /\ cfg_cli_timeout = 400
  /\ use_cache = FALSE
  /\ xverdict = "pending"
  /\ xout = Pending
  /\ \/ /\ xmode = "validate"
        /\ xcand \in ValidateCands
        /\ xtext = Text(<<>>)
     \/ /\ xmode = "extract"
        /\ xcand = DefaultHold
        /\ xtext \in ExtractTexts

\* a call of _validate_decision
ValidateDecision ==
  /\ xmode = "validate"
  /\ xverdict = "pending"
  /\ xverdict' = validate_decision(xcand)
  /\ UNCHANGED <<agent_vars, session_vars, xmode, xcand, xtext, xout, env_vars>>

\* a call of _extract_decision
ExtractDecision ==
  /\ xmode = "extract"
  /\ xout.exc = "pending"
  /\ xout' = extract_decision(xtext)
  /\ UNCHANGED <<agent_vars, session_vars, xmode, xcand, xverdict, xtext, env_vars>>

NextExtract == ValidateDecision \/ ExtractDecision

SpecExtract == InitExtract /\ [][NextExtract]_vars

\* ============================================================ claims
RoleCount(s, role) == Cardinality({i \in 1..Len(log[s]) : log[s][i].role = role})
Ended(s) == pc[s] \in {"done", "raised", "returned"}
Min(a, b) == IF a < b THEN a ELSE b

\* what the text of an envelope holds, read off the envelope itself
PrintsCleanly(d) == d.confidence.t \in {"num", "bool"}
Usable(env) ==
  /\ env.kind = "dict"
  /\ env.result.t \in {"str", "absent"}
  /\ LET x == extract_decision(response_text(env))
     IN x.exc = "none" /\ PrintsCleanly(x.decision)

\* the latest subprocess of the session ended in a way the controller does
\* not turn into an envelope: a stdout that is JSON but no object, or a
\* non-zero exit or an engine-reported error on attempt max_retries
FatalOutcome(s) ==
  \/ last_out[s].o = "non_object"
  \/ /\ Len(outcomes[s]) = max_retries
     /\ \/ last_out[s].o = "exit_nonzero"
        \/ last_out[s].o = "object" /\ last_out[s].env.is_error

\* ---------------------------------------------------------------- C1
\* C1 as stated, on the sessions it names first: a session whose attempts
\* (at least one) all ended in a timeout, a non-zero exit or an
\* engine-reported error still ends with exactly one decision record.
C1_AlwaysOneDecision ==
  \A s \in Sessions :
    ( /\ pc[s] \in {"done", "raised"}
      /\ Len(outcomes[s]) >= 1
      /\ \A i \in 1..Len(outcomes[s]) :
           outcomes[s][i] \in {"TimeoutError", "ClaudeCodeError"} )
    => RoleCount(s, "decision") = 1

\* C1 as amended: a session never logs more than one decision record; one
\* that ends normally after its context was assembled has logged exactly one,
\* as its last record, and no error record, and it ends so exactly when the
\* retry controller returned an envelope whose text is extracted and printed
\* without an exception; every other session (the controller raised or
\* returned None, extraction or printing raised, or the context failed) ends
\* with one error record and no decision record.
C1_DecisionOrError ==
  \A s \in Sessions :
    /\ RoleCount(s, "decision") <= 1
    /\ pc[s] = "done" =>
         /\ Usable(response[s])
         /\ RoleCount(s, "decision") = 1
         /\ RoleCount(s, "error") = 0
         /\ log[s][Len(log[s])] = DecisionRecord(decision[s])
    /\ pc[s] = "raised" =>
         /\ ~Usable(response[s])
         /\ RoleCount(s, "decision") = 0
         /\ RoleCount(s, "error") = 1
    /\ pc[s] = "returned" => log[s] = <<Record("error")>>
    /\ (Ended(s) /\ FatalOutcome(s)) => pc[s] = "raised"

\* C1 witness: one session ended with its decision, the other with the fatal
\* error of a last attempt that exited non-zero.
C1_Witness ==
  /\ pc[1] = "done" /\ RoleCount(1, "decision") = 1
  /\ pc[2] = "raised" /\ exc[2] = "RuntimeError" /\ last_out[2].o = "exit_nonzero"

\* ---------------------------------------------------------------- C2
\* C2: when a subprocess exits with status 0 and a stdout that is not the
\* expected envelope (no JSON, or JSON that is no object), the retry
\* controller returns the json_decode hold envelope (is_error true) and no
\* exception leaves it.
C2_MalformedFallsBackToHold ==
  \A s \in Sessions :
    last_out[s].o \in {"invalid_json", "non_object"} =>
      /\ exc[s] = "none"
      /\ response[s].kind = "dict"
      /\ response[s].is_error
      /\ response[s].error_type = "json_decode"

\* ---------------------------------------------------------------- C3
\* C3: within a session the timeout passed to attempt k+1 is at most the
\* timeout passed to attempt k.
C3_TimeoutNonIncreasing ==
  \A s \in Sessions :
    \A k \in 1..(Len(timeouts[s]) - 1) : timeouts[s][k + 1] <= timeouts[s][k]

\* ---------------------------------------------------------------- C4
\* C4 as stated: the timeout passed to an attempt is never below 120.
C4_NeverBelowFloor ==
  \A s \in Sessions : \A k \in 1..Len(timeouts[s]) : timeouts[s][k] >= MinTimeout

\* C4 as amended: the timeout passed to an attempt is the configured
\* cli_timeout or a narrowed value of at least 120, so it is never below
\* min(120, configured cli_timeout).
C4_ConfiguredOrAboveFloor ==
  \A s \in Sessions : \A k \in 1..Len(timeouts[s]) :
    /\ timeouts[s][k] = cfg_cli_timeout \/ timeouts[s][k] >= MinTimeout
    /\ timeouts[s][k] >= Min(MinTimeout, cfg_cli_timeout)

\* C4 witness: an attempt ran with the floor itself, narrowed down from a
\* configured 400.
C4_Witness ==
  \E s \in Sessions : \E k \in 1..Len(timeouts[s]) :
    timeouts[s][k] = MinTimeout /\ cfg_cli_timeout = 400

\* ---------------------------------------------------------------- C5
\* C5: in a session the number of subprocess invocations, and of calls of
\* _invoke_claude_cli, never exceeds max_retries.
Spawned(s) == Len(outcomes[s]) + (IF pc[s] = "subprocess" THEN 1 ELSE 0)

C5_AttemptsBounded ==
  \A s \in Sessions :
    /\ Spawned(s) <= max_retries
    /\ Len(timeouts[s]) <= max_retries
    /\ attempt[s] <= max_retries

\* C5 witness: a session used up its attempts on a mix of a timeout and a
\* process or engine error.
C5_Witness ==
  \E s \in Sessions :
    /\ max_retries >= 2
    /\ Len(outcomes[s]) = max_retries
    /\ \E i, j \in 1..Len(outcomes[s]) :
         outcomes[s][i] = "TimeoutError" /\ outcomes[s][j] = "ClaudeCodeError"

\* ---------------------------------------------------------------- C6
\* a candidate that parses and that _validate_decision accepts
Valid(o) == o.parses /\ validate_decision(o) = "True"
ValidOfKind(text, kind) ==
  { text[i].obj : i \in {j \in 1..Len(text) : text[j].kind = kind /\ Valid(text[j].obj)} }
KindsWithValid(text) == { k \in Kinds : ValidOfKind(text, k) # {} }

\* C6 as stated, for the calls that return: when the text holds valid
\* candidates of more than one kind, the decision returned is a valid tagged
\* candidate if there is one, else a valid fenced candidate if there is one,
\* else a valid loose candidate.
C6_BestKindWins ==
  (xmode = "extract" /\ xout.exc = "none" /\ xtext.t = "str"
     /\ Cardinality(KindsWithValid(xtext.blocks)) > 1)
  => LET text == xtext.blocks
     IN IF ValidOfKind(text, "tagged") # {}
        THEN xout.decision \in ValidOfKind(text, "tagged")
        ELSE IF ValidOfKind(text, "fenced") # {}
        THEN xout.decision \in ValidOfKind(text, "fenced")
        ELSE xout.decision \in ValidOfKind(text, "loose")

\* the leftmost block of the kind as a sequence of zero or one candidates
FirstCandidate(text, kind) ==
  LET of_kind == SelectSeq(text, LAMBDA b : b.kind = kind)
  IN IF of_kind = <<>> THEN <<>> ELSE <<of_kind[1].obj>>

\* The candidates in the order in which they are examined: the first tagged
\* one, the first fenced one, then every object with an action key, left to
\* right, wherever it stands.
Examined(text) ==
  FirstCandidate(text, "tagged") \o FirstCandidate(text, "fenced")
    \o [i \in 1..Len(LooseMatches(text)) |-> LooseMatches(text)[i].obj]

\* a candidate that is skipped: it does not parse, or validation answers False
Skipped(o) == ~o.parses \/ validate_decision(o) = "False"

\* C6 as amended: the call examines the first tagged candidate, then the
\* first fenced candidate, then every object of the text that holds an action
\* key (bare, or inside any tag or fence), left to right.  The first examined
\* candidate that is not skipped decides the call: it is returned when it is
\* valid, and the call raises when its validation raises; when every examined
\* candidate is skipped the default hold is returned.  A tagged or fenced
\* block after the first of its kind is reached only by the loose scan.
C6_FirstOfEachKind ==
  (xmode = "extract" /\ xout.exc # "pending" /\ xtext.t = "str")
  => LET ex == Examined(xtext.blocks)
         open == {i \in 1..Len(ex) : ~Skipped(ex[i])}
     IN IF open = {} THEN xout = Returned(DefaultHold)
        ELSE LET d == CHOOSE i \in open : \A j \in open : i <= j
             IN IF Valid(ex[d]) THEN xout = Returned(ex[d])
                ELSE xout.exc = "TypeError"

\* C6 witness: the first tagged block is invalid, a later tagged block and a
\* fenced block are valid, and the fenced candidate is returned.
C6_Witness ==
  /\ xmode = "extract" /\ xout.exc = "none" /\ xtext.t = "str"
  /\ Len(xtext.blocks) = 3
  /\ xtext.blocks[1] = Block("tagged", BuyZZZZ)
  /\ xtext.blocks[2] = Block("tagged", BuyAAPL)
  /\ xtext.blocks[3] = Block("fenced", SellMSFT)
  /\ xout.decision = SellMSFT

\* ---------------------------------------------------------------- C7
\* C7: _extract_decision never raises, whatever the types of the values of
\* the candidates in the text: every call on a text returns a Decision.
C7_ExtractionNeverRaises ==
  (xmode = "extract" /\ xtext.t = "str") => xout.exc \in {"pending", "none"}

\* ---------------------------------------------------------------- C8
\* C8: _validate_decision answers False for every buy or sell whose symbol
\* is outside the allowed universe, whatever its other fields are.
C8_UnknownSymbolRejected ==
  (xmode = "validate" /\ xverdict # "pending"
     /\ xcand.action \in {"buy", "sell"}
     /\ xcand.symbol \notin all_nasdaq_100_symbols)
  => xverdict = "False"

\* C8 witness: a buy of ZZZZ with a good amount and a confidence that is a
\* string was rejected.
C8_Witness ==
  /\ xmode = "validate" /\ xverdict = "False"
  /\ xcand.action = "buy" /\ xcand.symbol = "ZZZZ"
  /\ xcand.has = RequiredFields
  /\ xcand.amount = Num(10) /\ xcand.confidence = Str

\* ---------------------------------------------------------------- C9
StoredFor(s) == { r \in stored : r.pair = prompts[s] }

\* C9: with caching enabled, once an envelope was stored for a prompt pair,
\* every later call of _invoke_claude_cli with that pair returns that
\* envelope and spawns no subprocess.
C9_CacheHitSpawnsNothing ==
  [][ \A s \in Sessions :
        (pc[s] = "invoke" /\ pc'[s] # "invoke" /\ use_cache /\ StoredFor(s) # {})
        => /\ pc'[s] = "respond"
           /\ outcomes' = outcomes
           /\ \A r \in StoredFor(s) : response'[s] = r.env ]_vars

\* C9 witness: the second session got the envelope the first one stored for
\* the same pair, at its first attempt and without any subprocess.
C9_Witness ==
  /\ use_cache
  /\ prompts[1] = prompts[2]
  /\ Len(outcomes[1]) >= 1
  /\ pc[2] = "respond" /\ outcomes[2] = <<>> /\ attempt[2] = 1
  /\ StoredFor(2) = {[pair |-> prompts[2], env |-> response[2]]}

\* --------------------------------------------------------------- C10
TimeoutHold == Cand("hold", "", Num(0), Num(0), "Analysis timeout after all retries")
AllTimedOut(s) ==
  /\ max_retries >= 1
  /\ Len(outcomes[s]) = max_retries
  /\ \A i \in 1..Len(outcomes[s]) : outcomes[s][i] = "TimeoutError"

\* C10: when all max_retries >= 1 attempts of a session time out, the retry
\* controller raises nothing and returns an envelope with is_error false and
\* error_type timeout whose text extracts to the hold decision with symbol
\* "", amount 0 and confidence 0.0, and the session logs that decision.
C10_TimeoutExhaustionHolds ==
  \A s \in Sessions :
    AllTimedOut(s) =>
      /\ exc[s] = "none"
      /\ pc[s] \in {"respond", "done"}
      /\ response[s].kind = "dict"
      /\ ~response[s].is_error
      /\ response[s].error_type = "timeout"
      /\ extract_decision(response_text(response[s])) = Returned(TimeoutHold)
      /\ pc[s] = "done" =>
           /\ decision[s] = TimeoutHold
           /\ log[s][Len(log[s])] = DecisionRecord(TimeoutHold)

\* C10 witness: a session ended with the logged timeout hold after two
\* timed-out attempts.
C10_Witness ==
  \E s \in Sessions :
    /\ AllTimedOut(s) /\ max_retries = 2
    /\ pc[s] = "done"
    /\ log[s][Len(log[s])] = DecisionRecord(TimeoutHold)

\* --------------------------------------------------------------- C11
\* the latest subprocess of the session ended in a process error (non-zero
\* exit status) or an engine-reported error (an envelope with is_error)
ErroredOutcome(out) ==
  \/ out.o = "exit_nonzero"
  \/ out.o = "object" /\ out.env.is_error

\* C11: when attempt max_retries of a session ends in a process error or an
\* engine-reported error, the retry controller raises RuntimeError and
\* returns no envelope, the session logs no decision record and ends by
\* raising, with the error record as its last record; when an earlier
\* attempt ends so, the session sleeps and goes on to the next attempt.
C11_ErrorExhaustionIsFatal ==
  \A s \in Sessions :
    /\ \A k \in 1..Len(outcomes[s]) :
         (outcomes[s][k] = "ClaudeCodeError" /\ k < max_retries) =>
           \/ attempt[s] > k
           \/ /\ attempt[s] = k
              /\ pc[s] \in {"sleep_error", "retry"}
              /\ exc[s] = "none"
              /\ Len(sleeps[s]) = k
    /\ (Len(outcomes[s]) = max_retries /\ ErroredOutcome(last_out[s])) =>
         /\ pc[s] \in {"except", "raised"}
         /\ exc[s] = "RuntimeError"
         /\ response[s] = NoneResponse
         /\ RoleCount(s, "decision") = 0
         /\ pc[s] = "raised" => log[s][Len(log[s])] = Record("error")

\* C11 witness: with max_retries = 2 a session was retried after a first
\* error and ended by raising after an engine-reported error on attempt 2.
C11_Witness ==
  \E s \in Sessions :
    /\ max_retries = 2
    /\ outcomes[s] = <<"ClaudeCodeError", "ClaudeCodeError">>
    /\ last_out[s].o = "object" /\ last_out[s].env.is_error
    /\ sleeps[s] = <<BaseDelay>>
    /\ pc[s] = "raised" /\ exc[s] = "RuntimeError"

\* --------------------------------------------------------------- C12
\* the latest subprocess of the session printed a stdout that is no JSON
Malformed(s) == last_out[s].o = "invalid_json"

\* C12: a stdout that is no JSON, at any attempt, ends the retry loop at
\* once: the controller returns the json_decode hold envelope and raises
\* nothing, no sleep and no further call of _invoke_claude_cli follow the
\* attempt, and the step leaves self.cli_timeout as it was.
C12_MalformedEndsLoop ==
  /\ [](\A s \in Sessions :
          Malformed(s) =>
            /\ pc[s] \in {"respond", "done"}
            /\ exc[s] = "none"
            /\ response[s] = JsonDecodeEnvelope
            /\ attempt[s] = Len(outcomes[s])
            /\ Len(timeouts[s]) = Len(outcomes[s])
            /\ Len(sleeps[s]) = Len(outcomes[s]) - 1)
  /\ [][\A s \in Sessions :
          (Len(outcomes'[s]) > Len(outcomes[s]) /\ Malformed(s)') =>
            /\ cli_timeout' = cli_timeout
            /\ sleeps' = sleeps
            /\ pc'[s] = "respond"]_vars

\* C12 witness: with max_retries = 2, one session got the malformed stdout
\* at attempt 1 and the other at attempt 2, after a timeout; both ended
\* with the fallback hold.
C12_Witness ==
  /\ max_retries = 2
  /\ outcomes[1] = <<"ValueError">> /\ Malformed(1) /\ pc[1] = "done"
  /\ outcomes[2] = <<"TimeoutError", "ValueError">> /\ Malformed(2) /\ pc[2] = "done"
  /\ decision[1] = Cand("hold", "", Num(0), Num(0), "Invalid response format")
  /\ decision[2] = decision[1]

\* --------------------------------------------------------------- C13
\* C13: a session whose context could not be assembled returns with one
\* error record as its whole log, without a call of _invoke_claude_cli (the
\* only place where the cache is read or written and a subprocess spawned),
\* without an attempt or a sleep; the step leaves the cache, the stored
\* entries and self.cli_timeout as they were.  A session that starts either
\* goes on to the retry controller or returns so.
C13_ContextFailureAbortsCleanly ==
  /\ [](\A s \in Sessions :
          pc[s] = "returned" =>
            /\ log[s] = <<Record("error")>>
            /\ exc[s] = "none"
            /\ attempt[s] = 0
            /\ timeouts[s] = <<>> /\ outcomes[s] = <<>> /\ sleeps[s] = <<>>
            /\ response[s] = NoneResponse
            /\ last_out[s] = NoOutcome)
  /\ [][\A s \in Sessions :
          (pc[s] = "idle" /\ pc'[s] # "idle") =>
            /\ pc'[s] \in {"retry", "returned"}
            /\ pc'[s] = "returned" =>
                 UNCHANGED <<agent_vars, attempt, timeouts, outcomes, sleeps, running>>]_vars

\* C13 witness: the first session was aborted on its context while the
\* second one ran the engine and stored its envelope in the cache.
C13_Witness ==
  /\ pc[1] = "returned" /\ log[1] = <<Record("error")>>
  /\ pc[2] = "done" /\ outcomes[2] = <<"return">>
  /\ stored # {}

\* --------------------------------------------------------------- C14
\* C14: a session for which the retry controller returned a usable envelope
\* ends normally with its decision, whether or not the writes of its
\* records to the log file succeeded.
C14_LogFailureDoesNotAbort ==
  \A s \in Sessions :
    ( /\ Ended(s)
      /\ Len(outcomes[s]) >= 1
      /\ outcomes[s][Len(outcomes[s])] = "return"
      /\ Usable(response[s]) ) =>
      /\ pc[s] = "done"
      /\ exc[s] = "none"

\* --------------------------------------------------------------- C15
\* attempt max_retries of the session ended in a process error or an
\* engine-reported error
ExhaustedOnError(s) ==
  /\ max_retries >= 1
  /\ Len(outcomes[s]) = max_retries
  /\ outcomes[s][max_retries] = "ClaudeCodeError"

\* C15 as stated: a session that has ended either returned normally with one
\* logged decision, or raised after its retries were exhausted on a process
\* error.
C15_DecisionOrFatalAfterExhaustion ==
  \A s \in Sessions :
    Ended(s) =>
      \/ pc[s] \in {"done", "returned"} /\ RoleCount(s, "decision") = 1
      \/ pc[s] = "raised" /\ ExhaustedOnError(s)

\* C15 as amended: a session ends in exactly one of three ways.  It returns
\* normally with the log system, user, assistant, decision; or it returns
\* normally with one error record and no decision, when its context could
\* not be assembled; or it raises one exception, with one error record as
\* the last record and no decision.  The exception is RuntimeError exactly
\* when attempt max_retries ended in a process or engine-reported error; it
\* is AttributeError exactly when max_retries is 0 or the stdout was JSON
\* but no object; and it is a TypeError or a ValueError exactly when the
\* controller returned an envelope and the extraction or the printing of
\* the decision raised.
C15_EndsInOneOfThreeWays ==
  \A s \in Sessions :
    /\ pc[s] = "done" =>
         /\ exc[s] = "none"
         /\ log[s] = <<Record("system"), Record("user"), Record("assistant"),
                       DecisionRecord(decision[s])>>
    /\ pc[s] = "returned" =>
         /\ exc[s] = "none"
         /\ log[s] = <<Record("error")>>
    /\ pc[s] = "raised" =>
         /\ exc[s] \in {"RuntimeError", "AttributeError", "TypeError", "ValueError"}
         /\ RoleCount(s, "decision") = 0
         /\ RoleCount(s, "error") = 1
         /\ log[s][Len(log[s])] = Record("error")
         /\ exc[s] = "RuntimeError" <=> ExhaustedOnError(s)
         /\ exc[s] = "AttributeError" <=> (max_retries = 0 \/ last_out[s].o = "non_object")
         /\ exc[s] \in {"TypeError", "ValueError"} <=> response[s].kind = "dict"

\* C15 witness: one session returned without a decision after a context
\* failure, the other raised a TypeError on its first attempt, from the
\* validation of a confidence that is a string.
C15_Witness ==
  /\ pc[1] = "returned" /\ RoleCount(1, "decision") = 0
  /\ pc[2] = "raised" /\ exc[2] = "TypeError"
  /\ outcomes[2] = <<"return">> /\ max_retries = 2

\* --------------------------------------------------------------- C16
\* C16: the first attempt of every session is made with the configured
\* cli_timeout, whatever happened in the other sessions of the agent.
C16_FirstAttemptUsesConfigured ==
  \A s \in Sessions :
    Len(timeouts[s]) >= 1 => timeouts[s][1] = cfg_cli_timeout

\* --------------------------------------------------------------- C17
\* the latest call of _invoke_claude_cli of the session ended at the cache
\* lookup, without a subprocess
AnsweredFromCache(s) == Len(timeouts[s]) > Spawned(s)

\* C17: with writers and readers of one cache key in several processes, a
\* call of _invoke_claude_cli that does not spawn a subprocess returns a
\* complete envelope that some writer stored under the key of its prompts.
C17_RacingReadersSafe ==
  \A s \in Sessions :
    AnsweredFromCache(s) =>
      \E r \in stored :
        /\ get_cache_key(r.pair.user, r.pair.system)
             = get_cache_key(prompts[s].user, prompts[s].system)
        /\ response[s] = r.env

\* --------------------------------------------------------------- C18
\* C18: a session has at most one call of the subprocess that has not
\* ended; and when its attempt k is called or in flight, each of its
\* attempts 1..k-1 has ended, in a timeout or an error, and was followed by
\* its backoff sleep of BaseDelay * attempt, which has elapsed.
C18_OneInvocationInFlight ==
  \A s \in Sessions :
    /\ Spawned(s) - Len(outcomes[s]) \in {0, 1}
    /\ pc[s] \in {"invoke", "subprocess"} =>
         /\ attempt[s] >= 1
         /\ Len(outcomes[s]) = attempt[s] - 1
         /\ \A k \in 1..(attempt[s] - 1) :
              outcomes[s][k] \in {"TimeoutError", "ClaudeCodeError"}
         /\ sleeps[s] = [k \in 1..(attempt[s] - 1) |-> BaseDelay * k]
    /\ pc[s] \in {"sleep_timeout", "sleep_error"} =>
         /\ Len(outcomes[s]) = attempt[s]
         /\ Len(sleeps[s]) = attempt[s]

\* C18 witness: the last attempt of a session is in flight after a timeout
\* and an error (for max_retries = 2, after one of them), each with its
\* sleep.
C18_Witness ==
  \E s \in Sessions :
    /\ pc[s] = "subprocess"
    /\ attempt[s] = max_retries /\ max_retries >= 2
    /\ Len(sleeps[s]) = max_retries - 1
    /\ \E k \in 1..Len(outcomes[s]) : outcomes[s][k] = "TimeoutError"
    /\ max_retries >= 3 => \E k \in 1..Len(outcomes[s]) : outcomes[s][k] = "ClaudeCodeError"

\* --------------------------------------------------------------- C19
\* C19 as stated: a decision that _extract_decision returns has an action
\* among buy, sell, hold; a buy or sell has a non-empty symbol and a positive
\* amount; a hold has the amount 0; and the confidence is a number in [0, 1].
C19_ReturnedDecisionInModel ==
  (xmode = "extract" /\ xout.exc = "none")
  => LET d == xout.decision
     IN /\ d.action \in {"buy", "sell", "hold"}
        /\ d.action \in {"buy", "sell"} =>
             d.symbol # "" /\ d.amount.t = "num" /\ d.amount.n > 0
        /\ d.action = "hold" => d.amount = Num(0)
        /\ d.confidence.t = "num"
        /\ 0 <= d.confidence.n /\ d.confidence.n <= 100

\* C19 as amended: a decision that _extract_decision returns holds the five
\* fields and an action among buy, sell, hold.  A buy or sell has a symbol of
\* the allowed universe (so a non-empty one), an amount that is a number
\* above 0 and a confidence that is a number in [0, 1], where the JSON
\* values true and false count as the numbers 1 and 0.  A hold is the
\* default hold (symbol "", amount 0, confidence 0.0) or a candidate of the
\* text as it stands: its symbol, amount and confidence are not checked.
C19_ReturnedDecisionChecked ==
  (xmode = "extract" /\ xout.exc = "none")
  => LET d == xout.decision
     IN /\ d.parses /\ d.has = RequiredFields
        /\ d.action \in {"buy", "sell", "hold"}
        /\ d.action \in {"buy", "sell"} =>
             /\ d.symbol \in all_nasdaq_100_symbols /\ d.symbol # ""
             /\ IsNumber(d.amount) /\ d.amount.n > 0
             /\ IsNumber(d.confidence)
             /\ 0 <= d.confidence.n /\ d.confidence.n <= 100
        /\ d.action = "hold" =>
             \/ d = DefaultHold
             \/ \E i \in 1..Len(xtext.blocks) : xtext.blocks[i].obj = d

\* C19 witness: a tagged hold with symbol ZZZZ, amount 5 and confidence 1.5
\* was returned, ahead of a valid fenced buy.
C19_Witness ==
  /\ xmode = "extract" /\ xout.exc = "none" /\ xtext.t = "str"
  /\ Len(xtext.blocks) = 2
  /\ xtext.blocks[1] = Block("tagged", HoldBig)
  /\ xtext.blocks[2] = Block("fenced", BuyAAPL)
  /\ xout.decision = HoldBig

\* --------------------------------------------------------------- C20
\* the condition of C20, with "a number" read as a JSON number
AcceptableByC20(d) ==
  /\ RequiredFields \subseteq d.has
  /\ d.action \in {"buy", "sell", "hold"}
  /\ \/ d.action = "hold"
     \/ /\ d.symbol \in all_nasdaq_100_symbols
        /\ d.amount.t = "num" /\ d.amount.n > 0
        /\ d.confidence.t = "num"
        /\ 0 <= d.confidence.n /\ d.confidence.n <= 100

\* C20: _validate_decision answers True exactly for the candidates that hold
\* the five fields, an action among buy, sell, hold and, unless the action is
\* hold, an allowed symbol, a positive number as amount and a confidence in
\* [0.0, 1.0]; a buy or sell whose amount is a boolean is answered False.
C20_ValidatesExactly ==
  (xmode = "validate" /\ xverdict # "pending")
  => /\ xverdict = "True" <=> AcceptableByC20(xcand)
     /\ (xcand.action \in {"buy", "sell"} /\ xcand.has = RequiredFields
           /\ xcand.amount.t # "num")
        => xverdict = "False"

\* --------------------------------------------------------------- C21
\* C21: with the candidates taken in the order of the strategies (the first
\* tagged one, the first fenced one, then the objects of the loose scan),
\* every candidate that does not parse or is not valid is passed over and
\* the first valid one is returned; when none is valid the default hold
\* (symbol "", amount 0, confidence 0.0, a could-not-parse reasoning) is
\* returned.
C21_FallsThroughToFirstValid ==
  (xmode = "extract" /\ xout.exc # "pending" /\ xtext.t = "str")
  => LET ex == Examined(xtext.blocks)
         valid == {i \in 1..Len(ex) : Valid(ex[i])}
     IN IF valid = {} THEN xout = Returned(DefaultHold)
        ELSE xout = Returned(ex[CHOOSE i \in valid : \A j \in valid : i <= j])

\* --------------------------------------------------------------- C22
\* the place of a record in the order of a session's transcript
Rank(role) ==
  CASE role = "system" -> 1
    [] role = "user" -> 2
    [] role = "assistant" -> 3
    [] OTHER -> 4

\* C22: the records of a session are only ever appended: every step leaves
\* the records written so far in place.  They stand in the order system,
\* user, assistant, then one decision record or one error record, each at
\* most once: the system record precedes the user record, both precede the
\* assistant record, a decision record is the last record, and no session
\* has both a decision record and an error record.
C22_TranscriptAppendOnly ==
  /\ [](\A s \in Sessions :
          /\ \A i, j \in 1..Len(log[s]) :
               i < j => Rank(log[s][i].role) < Rank(log[s][j].role)
          /\ \A i \in 1..Len(log[s]) :
               log[s][i].role = "decision" => i = Len(log[s])
          /\ RoleCount(s, "decision") + RoleCount(s, "error") <= 1
          /\ RoleCount(s, "assistant") = 1 =>
               RoleCount(s, "system") = 1 /\ RoleCount(s, "user") = 1)
  /\ [][\A s \in Sessions :
          /\ Len(log'[s]) >= Len(log[s])
          /\ SubSeq(log'[s], 1, Len(log[s])) = log[s]]_vars

\* C22 witness: one session ended with system, user, assistant, decision;
\* the other with system, user, assistant, error.
C22_Witness ==
  /\ log[1] = <<Record("system"), Record("user"), Record("assistant"),
                DecisionRecord(decision[1])>>
  /\ log[2] = <<Record("system"), Record("user"), Record("assistant"),
                Record("error")>>

\* --- C23
\* the attempts of session s that failed with a retriable error before the
\* last attempt
FailedBefore(s) ==
  {k \in 1..Len(outcomes[s]) :
     k < max_retries /\ outcomes[s][k] \in {"TimeoutError", "ClaudeCodeError"}}

CacheKeyOf(s) == get_cache_key(prompts[s].user, prompts[s].system)

\* C25: the cache changes only in a step in which, with caching enabled, a
\* subprocess of a session ends in a success (a JSON object without is_error
\* that _invoke_claude_cli returns), and then the entry of the session's key
\* becomes that envelope: a timeout, a non-zero exit, a malformed output and
\* an envelope with is_error leave it unchanged.  Every entry is an engine
\* envelope with is_error false, never a hold fallback.  With caching
\* disabled the cache never changes and no call is answered from it, even
\* when it holds an entry for the prompts.
C25_CacheWrittenOnSuccessOnly ==
  /\ [](\A k \in CacheKeys :
         cache[k] # NoEntry =>
           /\ cache[k].kind = "dict"
           /\ ~cache[k].is_error
           /\ cache[k].error_type = "none")
  /\ [](~use_cache => \A s \in Sessions : ~AnsweredFromCache(s))
  /\ [][ cache' # cache =>
          /\ use_cache
          /\ \E s \in Sessions :
               /\ pc[s] = "subprocess"
               /\ outcomes'[s] = Append(outcomes[s], "return")
               /\ last_out'[s].o = "object"
               /\ ~last_out'[s].env.is_error
               /\ cache' = [cache EXCEPT ![CacheKeyOf(s)] = last_out'[s].env] ]_vars

\* session 1 stored the envelope of its second attempt after an
\* engine-reported error; session 2 ended on the timeout fallback, which is
\* not in the cache
C25_Witness ==
  /\ use_cache
  /\ pc[1] = "done" /\ pc[2] = "done"
  /\ outcomes[1] = <<"ClaudeCodeError", "return">>
  /\ cache[CacheKeyOf(1)] = last_out[1].env
  /\ outcomes[2] = <<"TimeoutError", "TimeoutError">>
  /\ response[2] = TimeoutEnvelope
  /\ \A k \in CacheKeys : cache[k] # TimeoutEnvelope

\* --- C26
\* C26: when attempt max_retries of a session has ended, whatever mix of
\* timeouts and process or engine errors the earlier attempts ended in, a
\* timeout of that attempt makes the controller return the timeout hold
\* envelope and the session end normally with a hold decision, and a process
\* or engine error of that attempt makes the controller raise RuntimeError
\* and the session end by raising without a decision.
C26_LastAttemptDecides ==
  \A s \in Sessions :
    (max_retries >= 1 /\ Len(outcomes[s]) = max_retries) =>
      /\ \A k \in 1..(max_retries - 1) :
           outcomes[s][k] \in {"TimeoutError", "ClaudeCodeError"}
      /\ outcomes[s][max_retries] = "TimeoutError" =>
           /\ response[s] = TimeoutEnvelope
           /\ exc[s] = "none"
           /\ pc[s] \in {"respond", "done"}
           /\ pc[s] = "done" =>
                decision[s].action = "hold" /\ RoleCount(s, "decision") = 1
      /\ outcomes[s][max_retries] = "ClaudeCodeError" =>
           /\ exc[s] = "RuntimeError"
           /\ pc[s] \in {"except", "raised"}
           /\ RoleCount(s, "decision") = 0

\* after two timeouts the error of attempt 3 is fatal; after two process or
\* engine errors the timeout of attempt 3 ends in the hold fallback
C26_Witness ==
  /\ max_retries = 3
  /\ outcomes[1] = <<"TimeoutError", "TimeoutError", "ClaudeCodeError">>
  /\ pc[1] = "raised" /\ exc[1] = "RuntimeError"
  /\ outcomes[2] = <<"ClaudeCodeError", "ClaudeCodeError", "TimeoutError">>
  /\ pc[2] = "done" /\ decision[2].action = "hold"

\* --- C27
\* C27: a call of _invoke_claude_cli that is answered from the cache returns
\* an envelope that an invocation with the identical (system, user) prompt
\* pair stored.
C27_HitOnlyForIdenticalPair ==
  \A s \in Sessions :
    AnsweredFromCache(s) =>
      \E r \in stored : r.pair = prompts[s] /\ r.env = response[s]

\* --- C28
\* the session has ended with its record written: a decision record and a
\* normal return, or an error record; and it made at most max_retries calls
\* of _invoke_claude_cli
Terminal(s) ==
  /\ Ended(s)
  /\ \/ pc[s] = "done" /\ RoleCount(s, "decision") = 1
     \/ RoleCount(s, "error") = 1
  /\ Len(timeouts[s]) <= max_retries

\* C28: with max_retries >= 1, subprocess attempts that end and sleeps that
\* elapse, every session that was started reaches a terminal state.  A
\* session that was started stays started and a terminal state is never
\* left, so that reaching it is the same as being idle or terminal again and
\* again.
C28_SessionTerminates ==
  /\ \A s \in Sessions : []<>(pc[s] = "idle" \/ Terminal(s))
  /\ [][\A s \in Sessions :
          /\ pc[s] # "idle" => pc'[s] # "idle"
          /\ Terminal(s) => Terminal(s)']_vars

\* a session ended with a decision after using all its attempts, the other
\* with an error record after using all of its own
C28_Witness ==
  /\ max_retries >= 2
  /\ Terminal(1) /\ Terminal(2)
  /\ pc[1] = "done" /\ Len(timeouts[1]) = max_retries
  /\ pc[2] = "raised" /\ Len(timeouts[2]) = max_retries


============================================================================
